---- MODULE Spec2Model ----
(***************************************************************************)
(* Result containers, the Panic signal and the throw-capturing adapters of *)
(* @yyhhenry/rust-result.                                                  *)
(*                                                                         *)
(* Values of the host language are records [kind, id, msg]: `kind` is the  *)
(* runtime class or primitive type, `id` the object identity (or the       *)
(* number itself for a number), `msg` the `message` property (or the text  *)
(* of a string).  Objects the callers hold from the start have id 0 and    *)
(* are told apart by kind and message; objects allocated during a run take *)
(* their id from `nextId`.  Result containers live in `heap`; the identity *)
(* of a container is its index there.  A string of the model writes the    *)
(* apostrophe where the source's string has a backquote.                   *)
(***************************************************************************)
EXTENDS Integers, Sequences, FiniteSets, TLC

VARIABLES heap, nextId, last, task

vars == <<heap, nextId, last, task>>

\* Bounds of the model.
MaxHeap == 3
MaxFresh == 3

----------------------------------------------------------------------------
\* Host values.

V(kind, id, msg) == [kind |-> kind, id |-> id, msg |-> msg]

Undef == V("undefined", 0, "")
Null == V("null", 0, "")
True == V("boolean", 1, "")
False == V("boolean", 0, "")
Num(n) == V("number", n, "")
Str(s) == V("string", 0, s)
Ref(i) == V("Result", i, "")
\* { message: m }: has a message, is not an instance of Error.
PlainObj(i, m) == V("Object", i, m)
\* Object.create(null): String(x) throws a TypeError.
NullProto(i) == V("NullProto", i, "")

ErrorClasses == {"Error", "SyntaxError", "TypeError", "Panic"}

\* e instanceof Error
instanceofError(x) == x.kind \in ErrorClasses

\* The structural error shape: the value carries a `message`.
hasMessage(x) == x.kind \in ErrorClasses \cup {"Object"}

----------------------------------------------------------------------------
\* Machine states and outcomes.  A machine state is a record with at least
\* the fields heap, nextId and calls; an outcome adds tag ("ret"/"throw")
\* and val (the returned or thrown value).

Machine(h, n) == [heap |-> h, nextId |-> n, calls |-> <<>>]

Ret(v, st) ==
    [tag |-> "ret", val |-> v, heap |-> st.heap, nextId |-> st.nextId,
     calls |-> st.calls]

Throw(x, st) ==
    [tag |-> "throw", val |-> x, heap |-> st.heap, nextId |-> st.nextId,
     calls |-> st.calls]

\* new cls(message)
NewError(cls, message, st) ==
    [tag |-> "ret", val |-> V(cls, st.nextId, message), heap |-> st.heap,
     nextId |-> st.nextId + 1, calls |-> st.calls]

Digit(n) == <<"0", "1", "2", "3", "4", "5", "6", "7", "8", "9">>[n + 1]

RECURSIVE NumToString(_)
NumToString(n) ==
    IF n < 10 THEN Digit(n) ELSE NumToString(n \div 10) \o Digit(n % 10)

\* String(x) of the host.
String(x, st) ==
    CASE x.kind = "undefined" -> Ret(Str("undefined"), st)
      [] x.kind = "null" -> Ret(Str("null"), st)
      [] x.kind = "boolean" -> Ret(Str(IF x.id = 1 THEN "true" ELSE "false"), st)
      [] x.kind = "number" -> Ret(Str(NumToString(x.id)), st)
      [] x.kind = "string" -> Ret(x, st)
      [] x.kind \in ErrorClasses -> Ret(Str(x.kind \o ": " \o x.msg), st)
      [] x.kind = "NullProto" ->
            LET t == NewError("TypeError",
                              "Cannot convert object to primitive value", st)
            IN  Throw(t.val, t)
      [] OTHER -> Ret(Str("[object Object]"), st)

----------------------------------------------------------------------------
\* Panic and the constructors (current module).

\* panic(message): throw new Panic(message)
panic(message, st) ==
    LET p == NewError("Panic", message, st) IN Throw(p.val, p)

\* new OkObject(v): `ok` is the tag field, `val` the field v.
OkObject(v) == [cls |-> "OkObject", ok |-> True, val |-> v]

\* A slip that would copy the tag of OkObject into ErrObject.
ErrObjectTaggedOk(e) == [cls |-> "ErrObject", ok |-> True, val |-> e]

\* new ErrObject(e): `ok` is the tag field, `val` the field e.
ErrObject(e) == [cls |-> "ErrObject", ok |-> False, val |-> e]

Alloc(obj, st) ==
    [tag |-> "ret", val |-> Ref(Len(st.heap) + 1),
     heap |-> Append(st.heap, obj), nextId |-> st.nextId, calls |-> st.calls]

ok(v, st) == Alloc(OkObject(v), st)

fin(st) == ok(Undef, st)

err(e, st) == Alloc(ErrObject(e), st)

anyhow(message, st) ==
    LET e == NewError("Error", message, st) IN err(e.val, e)

----------------------------------------------------------------------------
\* Callbacks are data: [name, c] for the functions callers pass in, and
\* [name, c, fn] for the closures the methods build themselves.

Cb(name, c) == [name |-> name, c |-> c]

NoCb == Cb("none", Undef)

Closure(name, c, fn) == [name |-> name, c |-> c, fn |-> fn]

Arg(args, i) == IF i <= Len(args) THEN args[i] ELSE Undef

\* v * 2 of the host.
Times2(x) == IF x.kind = "number" THEN Num(2 * x.id) ELSE V("number", 0, "NaN")

\* e.message of the host.
MessageOf(x) == IF hasMessage(x) THEN Str(x.msg) ELSE Undef

Logged(f, args, st) ==
    [st EXCEPT !.calls = Append(@, [name |-> f.name, c |-> f.c, args |-> args])]

\* (v) => f(v).andThen(g), a function callers hand to andThen.
Nested(f, g) == [name |-> "nested", c |-> Undef, fn |-> f, g |-> g]

----------------------------------------------------------------------------
\* The earlier module: containers without a tag field, toError.

\* new Ok(value): no `ok` property, so reading it yields undefined.
legacyOkObject(value) == [cls |-> "Ok", ok |-> Undef, val |-> value]

\* new Err(error)
legacyErrObject(error) == [cls |-> "Err", ok |-> Undef, val |-> error]

legacyOk(value, st) == Alloc(legacyOkObject(value), st)

legacyErr(error, st) == Alloc(legacyErrObject(error), st)

legacyAnyhow(s, st) ==
    LET e == NewError("Error", s, st) IN legacyErr(e.val, e)

\* ResultBase.isOk: this instanceof Ok
legacyIsOk(this, st) == st.heap[this].cls = "Ok"

\* ResultBase.isErr: this instanceof Err
legacyIsErr(this, st) == st.heap[this].cls = "Err"

\* A slip that would test for a message instead of the class.
toErrorByShape(e, st) ==
    IF hasMessage(e) THEN Ret(e, st)
    ELSE LET s == String(e, st) IN
         IF s.tag = "throw" THEN s ELSE NewError("Error", s.val.msg, s)

toError(e, st) ==
    IF instanceofError(e) THEN Ret(e, st)
    ELSE LET s == String(e, st) IN
         IF s.tag = "throw" THEN s ELSE NewError("Error", s.val.msg, s)

----------------------------------------------------------------------------
\* ResultObject (current module).

RECURSIVE Call(_, _, _)
RECURSIVE match(_, _, _, _)

isOk(this, st) == st.heap[this].cls = "OkObject"

isErr(this, st) == st.heap[this].cls = "ErrObject"

expect(this, msg, st) ==
    IF isOk(this, st) THEN Ret(st.heap[this].val, st) ELSE panic(msg, st)

\* A slip that would fall off the end of expectErr instead of panicking.
expectErrFallsThrough(this, msg, st) ==
    IF isErr(this, st) THEN Ret(st.heap[this].val, st) ELSE Ret(Undef, st)

expectErr(this, msg, st) ==
    IF isErr(this, st) THEN Ret(st.heap[this].val, st) ELSE panic(msg, st)

unwrapErr(this, st) ==
    expectErr(this, "called 'unwrapErr()' on an 'Ok' value", st)

\* A slip that would go on to the second callback after the first.
matchFallsThrough(this, okf, errf, st) ==
    IF isOk(this, st)
    THEN LET r == Call(okf, <<st.heap[this].val>>, st) IN
         IF r.tag = "throw" THEN r ELSE Call(errf, <<st.heap[this].val>>, r)
    ELSE Call(errf, <<st.heap[this].val>>, st)

match(this, okf, errf, st) ==
    IF isOk(this, st) THEN Call(okf, <<st.heap[this].val>>, st)
    ELSE IF isErr(this, st) THEN Call(errf, <<st.heap[this].val>>, st)
    ELSE panic("unreachable: unknown variant of Result", st)

unwrapOr(this, def, st) ==
    match(this, Closure("unwrapOr$ok", Undef, NoCb),
                Closure("unwrapOr$err", def, NoCb), st)

\* A slip that would compute the fallback before looking at the variant.
unwrapOrElseEager(this, fn, st) ==
    LET d == Call(fn, <<st.heap[this].val>>, st) IN
    IF d.tag = "throw" \/ isErr(this, st) THEN d
    ELSE Ret(st.heap[this].val, d)

unwrapOrElse(this, fn, st) ==
    match(this, Closure("unwrapOrElse$ok", Undef, NoCb),
                Closure("unwrapOrElse$err", Undef, fn), st)

\* A slip that would wrap every error of an Err in a Panic.
unwrapHandlerAlwaysPanics(e, st) ==
    panic("called 'unwrap()' on an 'Err' value", st)

\* The function unwrap hands to unwrapOrElse.
unwrapHandler(e, st) ==
    IF instanceofError(e) THEN Throw(e, st)
    ELSE panic("called 'unwrap()' on an 'Err' value", st)

unwrap(this, st) ==
    unwrapOrElse(this, Closure("unwrap$err", Undef, NoCb), st)

\* A slip that would apply fn to the payload of either variant.
mapAppliesToBoth(this, fn, st) ==
    match(this, Closure("map$ok", Undef, fn), Closure("map$ok", Undef, fn), st)

map(this, fn, st) ==
    match(this, Closure("map$ok", Undef, fn),
                Closure("map$err", Undef, NoCb), st)

mapErr(this, fn, st) ==
    match(this, Closure("mapErr$ok", Undef, NoCb),
                Closure("mapErr$err", Undef, fn), st)

\* A slip that would hand the error of an Err on inside an Ok.
andThenRecovers(this, fn, st) ==
    match(this, Closure("andThen$ok", Undef, fn),
                Closure("orElse$ok", Undef, NoCb), st)

andThen(this, fn, st) ==
    match(this, Closure("andThen$ok", Undef, fn),
                Closure("andThen$err", Undef, NoCb), st)

orElse(this, fn, st) ==
    match(this, Closure("orElse$ok", Undef, NoCb),
                Closure("orElse$err", Undef, fn), st)

\* ok(o) / err(o) applied to the value an inner call returned; a throw of
\* the inner call passes through.
okOf(o) == IF o.tag = "throw" THEN o ELSE ok(o.val, o)

errOf(o) == IF o.tag = "throw" THEN o ELSE err(o.val, o)

\* f(...args): the callers' functions by name, then the methods' closures.
Call(f, args, st) ==
    LET x == Arg(args, 1) IN
    CASE f.name = "identity" -> Ret(x, Logged(f, args, st))
      [] f.name = "double" -> Ret(Times2(x), Logged(f, args, st))
      [] f.name = "const" -> Ret(f.c, Logged(f, args, st))
      [] f.name = "throw" -> Throw(f.c, Logged(f, args, st))
      [] f.name = "message" -> Ret(MessageOf(x), Logged(f, args, st))
      [] f.name = "okDouble" -> ok(Times2(x), Logged(f, args, st))
      [] f.name = "anyhowAnother" ->
            anyhow("another error occurred", Logged(f, args, st))
      [] f.name = "okUnwrapErr" ->
            LET r == ok(f.c, Logged(f, args, st)) IN unwrapErr(r.val.id, r)
      [] f.name = "errExpect" ->
            LET r == err(f.c, Logged(f, args, st))
            IN  expect(r.val.id, "we expect a value here", r)
      [] f.name = "add" ->
            Ret(Num(x.id + Arg(args, 2).id), Logged(f, args, st))
      [] f.name \in {"resolves", "rejects"} ->
            Ret(V("Promise", 0, ""), Logged(f, args, st))
      [] f.name = "toError" -> toError(x, Logged(f, args, st))
      [] f.name = "wrapFn$thunk" -> Call(f.fn, f.args, st)
      [] f.name = "nested" ->
            LET r == Call(f.fn, <<x>>, st) IN
            IF r.tag = "throw" THEN r ELSE andThen(r.val.id, f.g, r)
      [] f.name = "unwrapOr$ok" -> Ret(x, st)
      [] f.name = "unwrapOr$err" -> Ret(f.c, st)
      [] f.name = "unwrapOrElse$ok" -> Ret(x, st)
      [] f.name = "unwrapOrElse$err" -> Call(f.fn, <<x>>, st)
      [] f.name = "unwrap$err" -> unwrapHandler(x, st)
      [] f.name = "map$ok" -> okOf(Call(f.fn, <<x>>, st))
      [] f.name = "map$err" -> err(x, st)
      [] f.name = "mapErr$ok" -> ok(x, st)
      [] f.name = "mapErr$err" -> errOf(Call(f.fn, <<x>>, st))
      [] f.name = "andThen$ok" -> Call(f.fn, <<x>>, st)
      [] f.name = "andThen$err" -> err(x, st)
      [] f.name = "orElse$ok" -> ok(x, st)
      [] f.name = "orElse$err" -> Call(f.fn, <<x>>, st)

----------------------------------------------------------------------------
\* Synchronous adapters.

execFn(fn, st) ==
    LET r == Call(fn, <<>>, st) IN
    IF r.tag = "ret" THEN ok(r.val, r)
    ELSE IF instanceofError(r.val) THEN err(r.val, r)
    ELSE LET s == String(r.val, r) IN
         IF s.tag = "throw" THEN s ELSE anyhow(s.val.msg, s)

\* wrapFn(fn)(...args)
wrapFn(fn, args, st) ==
    execFn([name |-> "wrapFn$thunk", c |-> Undef, fn |-> fn, args |-> args], st)

safelyWith(toErr, f, st) ==
    LET r == Call(f, <<>>, st) IN
    IF r.tag = "ret" THEN legacyOk(r.val, r)
    ELSE LET e == Call(toErr, <<r.val>>, r) IN
         IF e.tag = "throw" THEN e ELSE legacyErr(e.val, e)

safely(f, st) == safelyWith(Cb("toError", Undef), f, st)

----------------------------------------------------------------------------
\* Asynchronous adapters, cut at their one await.  A function that returns
\* a deferred value is Cb("resolves", v) or Cb("rejects", x); Settlement is
\* what the deferred value it returned settles to.

Settlement(fn) ==
    IF fn.name = "resolves" THEN [tag |-> "ret", val |-> fn.c]
    ELSE [tag |-> "throw", val |-> fn.c]

\* execAsyncFn after the await: ok(<awaited value>)
execAsyncFnThen(v, st) == ok(v, st)

\* execAsyncFn, the catch block.
execAsyncFnCatch(e, st) ==
    IF instanceofError(e) THEN err(e, st)
    ELSE LET s == String(e, st) IN
         IF s.tag = "throw" THEN s ELSE anyhow(s.val.msg, s)

\* wrapAsyncFn(fn)(...args): the function handed to execAsyncFn.
wrapAsyncFnThunk(fn, args) ==
    [name |-> "wrapFn$thunk", c |-> Undef, fn |-> fn, args |-> args]

\* safelyAsyncWith after the await: ok(value)
safelyAsyncWithThen(value, st) == legacyOk(value, st)

\* safelyAsyncWith, the catch block.
safelyAsyncWithCatch(toErr, e, st) ==
    LET r == Call(toErr, <<e>>, st) IN
    IF r.tag = "throw" THEN r ELSE legacyErr(r.val, r)

\* The adapters by name: `then` and `catch` of the adapter `op`.
AsyncThen(op, v, st) ==
    IF op \in {"execAsyncFn", "wrapAsyncFn"} THEN execAsyncFnThen(v, st)
    ELSE safelyAsyncWithThen(v, st)

AsyncCatch(op, toErr, e, st) ==
    IF op \in {"execAsyncFn", "wrapAsyncFn"} THEN execAsyncFnCatch(e, st)
    ELSE safelyAsyncWithCatch(toErr, e, st)

----------------------------------------------------------------------------
\* The values and functions the callers pass in.

HeldError == V("Error", 0, "an error occurred")

OkValues == {Num(1)}

ErrValues == {HeldError, Str("boom"), PlainObj(0, "plain failure")}

ThrownValues == {HeldError, Str("boom"), PlainObj(0, "plain failure"),
                 NullProto(0)}

Messages == {"an error occurred"}

ExpectMessages == {"we expect a value here"}

MapCallbacks == {Cb("identity", Undef), Cb("double", Undef),
                 Cb("throw", HeldError)}

MapErrCallbacks == {Cb("identity", Undef), Cb("message", Undef),
                    Cb("throw", HeldError)}

ChainCallbacks == {Cb("okDouble", Undef), Cb("anyhowAnother", Undef),
                   Cb("throw", HeldError)}

\* The (onOk, onErr) pairs handed to match.
MatchCallbacks ==
    {<<Cb("double", Undef), Cb("throw", HeldError)>>,
     <<Cb("throw", HeldError), Cb("message", Undef)>>,
     <<Cb("identity", Undef), Cb("const", Num(0))>>}

\* The functions (v) => f(v).andThen(g) over the chain callbacks.
NestedCallbacks == {Nested(f, g) : f \in ChainCallbacks, g \in ChainCallbacks}

ElseCallbacks == {Cb("const", Num(2)), Cb("throw", Str("boom"))}

Defaults == {Num(0)}

\* () => v, () => { throw x }, and functions that use a container of their
\* own wrongly: () => ok(v).unwrapErr(), () => err(e).expect(m).
Thunks ==
    {Cb("const", v) : v \in OkValues}
    \cup {Cb("throw", x) : x \in ThrownValues}
    \cup {Cb("okUnwrapErr", Num(1)), Cb("errExpect", HeldError)}

\* Functions of two arguments for wrapFn, and the arguments.
WrappedFns == {Cb("add", Undef)} \cup {Cb("throw", x) : x \in ThrownValues}

ArgLists == {<<Num(1), Num(2)>>}

\* Functions returning a deferred value, or throwing before they do.
AsyncThunks ==
    {Cb("resolves", v) : v \in OkValues}
    \cup {Cb("rejects", x) : x \in ThrownValues}
    \cup {Cb("throw", HeldError), Cb("okUnwrapErr", Num(1))}

Converters == {Cb("const", HeldError), Cb("throw", Str("bad converter"))}

----------------------------------------------------------------------------
\* State.  `last` is the latest operation with its inputs and its outcome:
\* tag "ret" and the value returned, or tag "throw" and the value raised to
\* the caller; `calls` lists the calls made to the callers' functions.
\* `task` is the asynchronous adapter call in flight.

Pending == [tag |-> "pending", val |-> Undef]

Idle ==
    [pc |-> "idle", op |-> "none", fn |-> NoCb, toErr |-> NoCb,
     args |-> <<>>, inner |-> Pending, out |-> Pending, succ |-> 0,
     fail |-> 0, resumes |-> 0, calls |-> <<>>, base |-> 0, id0 |-> 1]

NoOp ==
    [op |-> "init", this |-> 0, f |-> NoCb, g |-> NoCb, arg |-> Undef,
     args |-> <<>>, tag |-> "ret", val |-> Undef, calls |-> <<>>,
     base |-> 0, id0 |-> 1]

Init ==
    /\ heap = <<>>
    /\ nextId = 1
    /\ last = NoOp
    /\ task = Idle

Now == Machine(heap, nextId)

Fits(o) == Len(o.heap) <= MaxHeap /\ o.nextId <= MaxFresh + 1

\* A run is one chain: a constructor or an adapter call on an empty heap,
\* then method calls on the container obtained last.  While an asynchronous
\* adapter call is in flight its caller awaits it.
Quiet == task.pc = "idle"

Fresh == Quiet /\ heap = <<>>

Newest == {i \in 1..Len(heap) : i = Len(heap)}

\* The newest container, when it has the methods of ResultObject.
Current == {i \in Newest : heap[i].cls \in {"OkObject", "ErrObject"}}

\* The operation `op` ran to the outcome o.
Commit(op, this, f, g, arg, args, o) ==
    /\ Quiet
    /\ Fits(o)
    /\ heap' = o.heap
    /\ nextId' = o.nextId
    /\ last' = [op |-> op, this |-> this, f |-> f, g |-> g, arg |-> arg,
                args |-> args, tag |-> o.tag, val |-> o.val,
                calls |-> o.calls, base |-> Len(heap), id0 |-> nextId]
    /\ UNCHANGED task

DoOk ==
    /\ Fresh
    /\ \E v \in OkValues : Commit("ok", 0, NoCb, NoCb, v, <<>>, ok(v, Now))

DoFin ==
    /\ Fresh
    /\ Commit("fin", 0, NoCb, NoCb, Undef, <<>>, fin(Now))

DoErr ==
    /\ Fresh
    /\ \E e \in ErrValues : Commit("err", 0, NoCb, NoCb, e, <<>>, err(e, Now))

DoAnyhow ==
    /\ Fresh
    /\ \E m \in Messages :
          Commit("anyhow", 0, NoCb, NoCb, Str(m), <<>>, anyhow(m, Now))

DoExpect ==
    \E i \in Current, m \in ExpectMessages :
        Commit("expect", i, NoCb, NoCb, Str(m), <<>>, expect(i, m, Now))

DoExpectErr ==
    \E i \in Current, m \in ExpectMessages :
        Commit("expectErr", i, NoCb, NoCb, Str(m), <<>>, expectErr(i, m, Now))

DoUnwrap ==
    \E i \in Current :
        Commit("unwrap", i, NoCb, NoCb, Undef, <<>>, unwrap(i, Now))

DoUnwrapErr ==
    \E i \in Current :
        Commit("unwrapErr", i, NoCb, NoCb, Undef, <<>>, unwrapErr(i, Now))

DoMatch ==
    \E i \in Current, p \in MatchCallbacks :
        Commit("match", i, p[1], p[2], Undef, <<>>, match(i, p[1], p[2], Now))

DoUnwrapOr ==
    \E i \in Current, d \in Defaults :
        Commit("unwrapOr", i, NoCb, NoCb, d, <<>>, unwrapOr(i, d, Now))

DoUnwrapOrElse ==
    \E i \in Current, f \in ElseCallbacks :
        Commit("unwrapOrElse", i, f, NoCb, Undef, <<>>, unwrapOrElse(i, f, Now))

DoMap ==
    \E i \in Current, f \in MapCallbacks :
        Commit("map", i, f, NoCb, Undef, <<>>, map(i, f, Now))

DoMapErr ==
    \E i \in Current, f \in MapErrCallbacks :
        Commit("mapErr", i, f, NoCb, Undef, <<>>, mapErr(i, f, Now))

DoAndThen ==
    \E i \in Current, f \in ChainCallbacks :
        Commit("andThen", i, f, NoCb, Undef, <<>>, andThen(i, f, Now))

\* r.andThen((v) => f(v).andThen(g))
DoAndThenNested ==
    \E i \in Current, k \in NestedCallbacks :
        Commit("andThenNested", i, k.fn, k.g, Undef, <<>>, andThen(i, k, Now))

DoOrElse ==
    \E i \in Current, f \in ChainCallbacks :
        Commit("orElse", i, f, NoCb, Undef, <<>>, orElse(i, f, Now))

DoExecFn ==
    /\ Fresh
    /\ \E f \in Thunks :
          Commit("execFn", 0, f, NoCb, Undef, <<>>, execFn(f, Now))

DoWrapFn ==
    /\ Fresh
    /\ \E f \in WrappedFns, a \in ArgLists :
          Commit("wrapFn", 0, f, NoCb, Undef, a, wrapFn(f, a, Now))

DoSafely ==
    /\ Fresh
    /\ \E f \in Thunks :
          Commit("safely", 0, f, NoCb, Undef, <<>>, safely(f, Now))

DoSafelyWith ==
    /\ Fresh
    /\ \E t \in Converters, f \in Thunks :
          Commit("safelyWith", 0, f, t, Undef, <<>>, safelyWith(t, f, Now))

----------------------------------------------------------------------------
\* Asynchronous adapter calls, step by step.

\* The adapter `op` is called: it calls `thunk` inside its try block.  A
\* throw of that call runs the catch block at once; otherwise the adapter
\* suspends at its await.
AsyncCall(op, fn, toErr, args, thunk) ==
    /\ Fresh
    /\ LET r == Call(thunk, <<>>, Now)
           c == AsyncCatch(op, toErr, r.val, r)
           o == IF r.tag = "throw" THEN c ELSE r
       IN  /\ Fits(o)
           /\ heap' = o.heap
           /\ nextId' = o.nextId
           /\ task' = [pc |-> IF r.tag = "throw" THEN "returned" ELSE "awaiting",
                       op |-> op, fn |-> fn, toErr |-> toErr, args |-> args,
                       inner |-> Pending,
                       out |-> IF r.tag = "throw"
                               THEN [tag |-> c.tag, val |-> c.val]
                               ELSE Pending,
                       succ |-> 0,
                       fail |-> IF r.tag = "throw" THEN 1 ELSE 0,
                       resumes |-> 0, calls |-> o.calls,
                       base |-> Len(heap), id0 |-> nextId]
    /\ UNCHANGED last

DoExecAsyncFn ==
    \E f \in AsyncThunks : AsyncCall("execAsyncFn", f, NoCb, <<>>, f)

DoWrapAsyncFn ==
    \E f \in AsyncThunks, a \in ArgLists :
        AsyncCall("wrapAsyncFn", f, NoCb, a, wrapAsyncFnThunk(f, a))

DoSafelyAsync ==
    \E f \in AsyncThunks :
        AsyncCall("safelyAsync", f, Cb("toError", Undef), <<>>, f)

DoSafelyAsyncWith ==
    \E t \in Converters, f \in AsyncThunks :
        AsyncCall("safelyAsyncWith", f, t, <<>>, f)

\* The deferred value the adapter awaits settles.
Settle ==
    /\ task.pc = "awaiting"
    /\ task.inner.tag = "pending"
    /\ task' = [task EXCEPT !.inner = Settlement(task.fn)]
    /\ UNCHANGED <<heap, nextId, last>>

\* The adapter resumes from its await: into the rest of the try block when
\* the awaited value fulfilled, into the catch block when it rejected.
Resume ==
    /\ task.pc = "awaiting"
    /\ task.inner.tag # "pending"
    /\ LET st == [heap |-> heap, nextId |-> nextId, calls |-> task.calls]
           o == IF task.inner.tag = "ret"
                THEN AsyncThen(task.op, task.inner.val, st)
                ELSE AsyncCatch(task.op, task.toErr, task.inner.val, st)
       IN  /\ Fits(o)
           /\ heap' = o.heap
           /\ nextId' = o.nextId
           /\ task' = [task EXCEPT
                         !.pc = "returned",
                         !.out = [tag |-> o.tag, val |-> o.val],
                         !.succ = @ + (IF task.inner.tag = "ret" THEN 1 ELSE 0),
                         !.fail = @ + (IF task.inner.tag = "ret" THEN 0 ELSE 1),
                         !.resumes = @ + 1,
                         !.calls = o.calls]
    /\ UNCHANGED last

\* The caller's await of the adapter's deferred Result completes.
Deliver ==
    /\ task.pc = "returned"
    /\ task' = Idle
    /\ last' = [op |-> task.op, this |-> 0, f |-> task.fn, g |-> task.toErr,
                arg |-> Undef, args |-> task.args, tag |-> task.out.tag,
                val |-> task.out.val, calls |-> task.calls,
                base |-> task.base, id0 |-> task.id0]
    /\ UNCHANGED <<heap, nextId>>

Next ==
    \/ DoOk
    \/ DoFin
    \/ DoErr
    \/ DoAnyhow
    \/ DoExpect
    \/ DoExpectErr
    \/ DoUnwrap
    \/ DoUnwrapErr
    \/ DoMatch
    \/ DoUnwrapOr
    \/ DoUnwrapOrElse
    \/ DoMap
    \/ DoMapErr
    \/ DoAndThen
    \/ DoAndThenNested
    \/ DoOrElse
    \/ DoExecFn
    \/ DoWrapFn
    \/ DoSafely
    \/ DoSafelyWith
    \/ DoExecAsyncFn
    \/ DoWrapAsyncFn
    \/ DoSafelyAsync
    \/ DoSafelyAsyncWith
    \/ Settle
    \/ Resume
    \/ Deliver

Spec == Init /\ [][Next]_vars

----------------------------------------------------------------------------
\* Properties.

\* The receiver of the last operation, and the containers it built.
Receiver == heap[last.this]

Built == {i \in 1..Len(heap) : i > last.base}

PanicRaised(message) ==
    /\ last.tag = "throw"
    /\ last.val.kind = "Panic"
    /\ last.val.msg = message
    /\ last.val.id >= last.id0

\* C1, as amended: unwrap() on Ok(v) returns v; on Err(e) with e an instance
\* of Error (of any subclass) it raises that same e, not a Panic and not a
\* copy; on Err(e) with any other e, a message-carrying plain object
\* included, it raises a new Panic whose message is the source's text
\* "called 'unwrap()' on an 'Err' value" (backquotes in the source).  It
\* never returns on an Err.
C1_Unwrap ==
    last.op = "unwrap" =>
        /\ Receiver.cls = "OkObject" =>
              last.tag = "ret" /\ last.val = Receiver.val
        /\ Receiver.cls = "ErrObject" /\ instanceofError(Receiver.val) =>
              last.tag = "throw" /\ last.val = Receiver.val
        /\ Receiver.cls = "ErrObject" /\ ~instanceofError(Receiver.val) =>
              PanicRaised("called 'unwrap()' on an 'Err' value")

\* unwrap() ran on an Err whose payload has a message and is no Error.
C1_Witness ==
    /\ last.op = "unwrap"
    /\ Receiver.cls = "ErrObject"
    /\ hasMessage(Receiver.val)
    /\ ~instanceofError(Receiver.val)
    /\ last.tag = "throw"

\* C1 as stated: every payload with a message is raised again unchanged,
\* and the Panic's message is "called unwrap() on an Err value".
C1_AsStated ==
    last.op = "unwrap" =>
        /\ Receiver.cls = "OkObject" =>
              last.tag = "ret" /\ last.val = Receiver.val
        /\ Receiver.cls = "ErrObject" /\ hasMessage(Receiver.val) =>
              last.tag = "throw" /\ last.val = Receiver.val
        /\ Receiver.cls = "ErrObject" /\ ~hasMessage(Receiver.val) =>
              PanicRaised("called unwrap() on an Err value")

SyncAdapters == {"execFn", "safely", "safelyWith", "wrapFn"}

\* C2: a call to a synchronous adapter returns a Result to its caller,
\* whatever the wrapped function raises and whatever the converter does;
\* nothing raised passes the adapter.
C2_NothingEscapes ==
    last.op \in SyncAdapters =>
        /\ last.tag = "ret"
        /\ last.val.kind = "Result"
        /\ last.val.id \in Built

\* C3: no container holds a Panic as its error value.
C3_NoPanicStored ==
    \A i \in 1..Len(heap) : heap[i].val.kind # "Panic"

IsOkAt(i) == heap[i].cls \in {"OkObject", "Ok"}

IsErrAt(i) == heap[i].cls \in {"ErrObject", "Err"}

\* The last operation returned a new Ok (Err) container holding v (e).
ReturnedOk(v) ==
    /\ last.tag = "ret"
    /\ last.val.kind = "Result"
    /\ last.val.id \in Built
    /\ IsOkAt(last.val.id)
    /\ heap[last.val.id].val = v

ReturnedErr(e) ==
    /\ last.tag = "ret"
    /\ last.val.kind = "Result"
    /\ last.val.id \in Built
    /\ IsErrAt(last.val.id)
    /\ heap[last.val.id].val = e

\* The last operation returned a new Err container holding an Error made
\* during the operation, with the message m.
ReturnedErrWithNew(m) ==
    /\ last.tag = "ret"
    /\ last.val.kind = "Result"
    /\ last.val.id \in Built
    /\ IsErrAt(last.val.id)
    /\ heap[last.val.id].val.kind = "Error"
    /\ heap[last.val.id].val.id >= last.id0
    /\ heap[last.val.id].val.msg = m

\* The state the last operation started from.
Before ==
    [heap |-> SubSeq(heap, 1, last.base), nextId |-> last.id0, calls |-> <<>>]

DefaultAdapters ==
    {"execFn", "wrapFn", "safely", "execAsyncFn", "wrapAsyncFn", "safelyAsync"}

ConverterAdapters == {"safelyWith", "safelyAsyncWith"}

\* The wrapped function of the last adapter call raised (or rejected with)
\* the value last.f.c.
Raised == last.f.name \in {"throw", "rejects"}

FnCalls == SelectSeq(last.calls, LAMBDA c : c.name = last.f.name)

\* C5: execFn, safely and the wrapper of wrapFn call the function once,
\* with the wrapper's arguments; a normal return r gives Ok(r); a throw
\* gives Err carrying the thrown error; execFn and safely agree on variant
\* and payload.
C5_OnceOkOrErr ==
    last.op \in {"execFn", "safely", "wrapFn"} =>
        /\ Len(FnCalls) = 1
        /\ FnCalls[1].args = last.args
        /\ last.f.name = "const" => ReturnedOk(last.f.c)
        /\ last.f.name = "add" =>
              ReturnedOk(Num(last.args[1].id + last.args[2].id))
        /\ last.f.name = "throw" =>
              /\ last.tag = "ret"
              /\ last.val.kind = "Result"
              /\ IsErrAt(last.val.id)
              /\ instanceofError(heap[last.val.id].val)
              /\ instanceofError(last.f.c) => heap[last.val.id].val = last.f.c
              /\ last.f.c.kind = "string" =>
                    heap[last.val.id].val.msg = last.f.c.msg
        /\ last.f.name \in {"okUnwrapErr", "errExpect"} =>
              /\ last.tag = "ret"
              /\ last.val.kind = "Result"
              /\ IsErrAt(last.val.id)
              /\ heap[last.val.id].val.kind = "Panic"
        /\ last.op \in {"execFn", "safely"} =>
              LET a == execFn(last.f, Before)
                  b == safely(last.f, Before)
              IN  /\ a.tag = "ret" /\ b.tag = "ret"
                  /\ (a.heap[a.val.id].cls = "OkObject")
                        = (b.heap[b.val.id].cls = "Ok")
                  /\ a.heap[a.val.id].val = b.heap[b.val.id].val

\* C6: an asynchronous adapter call that has returned ran exactly one of
\* its two paths, once; it resumed from its await once (never, when the
\* function threw before the await); its deferred Result fulfilled, with
\* Ok(r) for a value that resolved with r and with an Err for one that
\* rejected or a function that threw.
C6_SettlesOnce ==
    task.pc = "returned" /\ task.op \in {"execAsyncFn", "safelyAsync", "wrapAsyncFn"} =>
        /\ task.succ + task.fail = 1
        /\ task.resumes = (IF task.fn.name \in {"resolves", "rejects"} THEN 1 ELSE 0)
        /\ task.out.tag = "ret"
        /\ task.out.val.kind = "Result"
        /\ task.fn.name = "resolves" =>
              /\ task.succ = 1
              /\ IsOkAt(task.out.val.id)
              /\ heap[task.out.val.id].val = task.fn.c
        /\ task.fn.name # "resolves" =>
              /\ task.fail = 1
              /\ IsErrAt(task.out.val.id)

\* C7: every container is exactly one of Ok and Err by isOk()/isErr(), the
\* tag field `ok` of a container of the current module says the same, and
\* ok(v) and fin() build an Ok (fin() the one ok(undefined) builds), err(e)
\* and anyhow(m) an Err (anyhow(m) around a new Error with message m).
C7_Variants ==
    /\ \A i \in 1..Len(heap) :
          IF heap[i].cls \in {"OkObject", "ErrObject"}
          THEN /\ isOk(i, Now) # isErr(i, Now)
               /\ heap[i].ok = (IF isOk(i, Now) THEN True ELSE False)
               /\ heap[i].ok = (IF isErr(i, Now) THEN False ELSE True)
          ELSE legacyIsOk(i, Now) # legacyIsErr(i, Now)
    /\ last.op = "ok" => ReturnedOk(last.arg) /\ isOk(last.val.id, Now)
    /\ last.op = "fin" =>
          /\ ReturnedOk(Undef)
          /\ isOk(last.val.id, Now)
          /\ heap[last.val.id] = ok(Undef, Before).heap[last.base + 1]
    /\ last.op = "err" => ReturnedErr(last.arg) /\ isErr(last.val.id, Now)
    /\ last.op = "anyhow" =>
          ReturnedErrWithNew(last.arg.msg) /\ isErr(last.val.id, Now)

\* A chain holds an Err and the Ok that orElse built from it, each with
\* its tag.
C7_Witness ==
    /\ Len(heap) >= 2
    /\ \E i, j \in 1..Len(heap) :
          /\ isErr(i, Now) /\ heap[i].ok = False
          /\ isOk(j, Now) /\ heap[j].ok = True
    /\ last.op = "orElse"

\* C8: match calls exactly one of its two callbacks, once: onOk with the
\* value of an Ok, onErr with the error of an Err; what that call returns
\* or raises is what match returns or raises.
C8_MatchCallsOne ==
    last.op = "match" =>
        LET cb == IF Receiver.cls = "OkObject" THEN last.f ELSE last.g
            r == Call(cb, <<Receiver.val>>, Before)
        IN  /\ Len(last.calls) = 1
            /\ last.calls[1] =
                  [name |-> cb.name, c |-> cb.c, args |-> <<Receiver.val>>]
            /\ last.tag = r.tag
            /\ last.val = r.val

\* match ran on an Ok with an onOk that raises, and on an Err.
C8_Witness ==
    /\ last.op = "match"
    /\ Receiver.cls = "OkObject"
    /\ last.f.name = "throw"
    /\ last.tag = "throw"

\* C9: expect(msg) returns v on Ok(v) and raises a new Panic with message
\* msg on an Err; expectErr(msg) returns e on Err(e) and raises a new Panic
\* with message msg on an Ok; unwrapErr() returns e on Err(e) and raises a
\* new Panic with the message "called 'unwrapErr()' on an 'Ok' value"
\* (backquotes in the source) on an Ok.
C9_WrongVariantPanics ==
    /\ last.op = "expect" =>
          IF Receiver.cls = "OkObject"
          THEN last.tag = "ret" /\ last.val = Receiver.val
          ELSE PanicRaised(last.arg.msg)
    /\ last.op = "expectErr" =>
          IF Receiver.cls = "ErrObject"
          THEN last.tag = "ret" /\ last.val = Receiver.val
          ELSE PanicRaised(last.arg.msg)
    /\ last.op = "unwrapErr" =>
          IF Receiver.cls = "ErrObject"
          THEN last.tag = "ret" /\ last.val = Receiver.val
          ELSE PanicRaised("called 'unwrapErr()' on an 'Ok' value")

\* expectErr(msg) ran on an Ok.
C9_Witness ==
    /\ last.op = "expectErr"
    /\ Receiver.cls = "OkObject"
    /\ last.tag = "throw"
    /\ last.val.kind = "Panic"

PassThrough ==
    \/ last.op \in {"map", "andThen"} /\ Receiver.cls = "ErrObject"
    \/ last.op \in {"mapErr", "orElse"} /\ Receiver.cls = "OkObject"

\* The operation in hand returned one new container, of the receiver's
\* variant and with the receiver's payload, and called nothing.
C10_NoOp ==
    PassThrough =>
        /\ last.calls = <<>>
        /\ last.tag = "ret"
        /\ last.val.kind = "Result"
        /\ Built = {last.val.id}
        /\ last.val.id # last.this
        /\ heap[last.val.id] = Receiver

\* No step changes or removes a container.
C10_Frame ==
    /\ Len(heap') >= Len(heap)
    /\ \A i \in 1..Len(heap) : heap'[i] = heap[i]

\* C10: map and andThen on an Err, mapErr and orElse on an Ok, never call
\* the callback and return a new container with the receiver's variant and
\* payload; no operation changes a container that exists.
C10_PassThrough == []C10_NoOp /\ [][C10_Frame]_vars

\* map ran on an Err with a callback that would have raised.
C10_Witness ==
    /\ last.op = "map"
    /\ Receiver.cls = "ErrObject"
    /\ last.f.name = "throw"
    /\ last.tag = "ret"

\* r.andThen(f).andThen(g), computed from the state the last operation
\* started from.
Chained ==
    LET a == andThen(last.this, last.f, Before) IN
    IF a.tag = "throw" THEN a ELSE andThen(a.val.id, last.g, a)

\* What f returns for the payload of the receiver.
FirstLink == Call(last.f, <<Receiver.val>>, Before)

\* C11: r.map(x => x) returns a container equal to r, variant and payload,
\* for r of either variant; r.andThen(f).andThen(g) and
\* r.andThen(v => f(v).andThen(g)) end alike, both raising the same value or
\* both returning containers equal in variant and payload, after the same
\* calls to f and g in the same order; when r is an Err neither f nor g is
\* called, and when f returns an Err g is not called.
C11_Laws ==
    /\ last.op = "map" /\ last.f.name = "identity" =>
          /\ last.tag = "ret"
          /\ last.val.kind = "Result"
          /\ last.val.id \in Built
          /\ heap[last.val.id] = Receiver
    /\ last.op = "andThenNested" =>
          /\ Chained.tag = last.tag
          /\ Chained.calls = last.calls
          /\ last.tag = "throw" => Chained.val = last.val
          /\ last.tag = "ret" =>
                /\ last.val.kind = "Result"
                /\ Chained.val.kind = "Result"
                /\ heap[last.val.id] = Chained.heap[Chained.val.id]
          /\ Receiver.cls = "ErrObject" =>
                last.calls = <<>> /\ heap[last.val.id] = Receiver
          /\ /\ Receiver.cls = "OkObject"
             /\ FirstLink.tag = "ret"
             /\ FirstLink.heap[FirstLink.val.id].cls = "ErrObject"
             => /\ last.calls = FirstLink.calls
                /\ Len(last.calls) = 1
                /\ heap[last.val.id] = FirstLink.heap[FirstLink.val.id]

\* The nested form ran on an Ok with an f that returns an Err: g was not
\* called and the Err of f came out.
C11_Witness ==
    /\ last.op = "andThenNested"
    /\ Receiver.cls = "OkObject"
    /\ last.f.name = "anyhowAnother"
    /\ last.g.name = "okDouble"
    /\ last.tag = "ret"
    /\ heap[last.val.id].cls = "ErrObject"
    /\ Len(last.calls) = 1

\* C12: unwrapOr(d) returns v on Ok(v) and d on Err(e) and calls nothing;
\* unwrapOrElse(fn) returns v on Ok(v) without calling fn, and on Err(e)
\* calls fn once, with e, and ends as that call ends: it returns what fn
\* returns and raises only what fn raises.  Neither builds a container or
\* an error of its own.
C12_Extraction ==
    /\ last.op = "unwrapOr" =>
          /\ last.tag = "ret"
          /\ last.calls = <<>>
          /\ last.val = (IF Receiver.cls = "OkObject" THEN Receiver.val
                         ELSE last.arg)
    /\ last.op = "unwrapOrElse" =>
          IF Receiver.cls = "OkObject"
          THEN /\ last.tag = "ret"
               /\ last.val = Receiver.val
               /\ last.calls = <<>>
          ELSE LET r == Call(last.f, <<Receiver.val>>, Before) IN
               /\ last.calls =
                     <<[name |-> last.f.name, c |-> last.f.c,
                        args |-> <<Receiver.val>>]>>
               /\ last.tag = r.tag
               /\ last.val = r.val
    /\ last.op \in {"unwrapOr", "unwrapOrElse"} =>
          /\ Built = {}
          /\ nextId = last.id0
          /\ last.tag = "throw" => last.f.name = "throw" /\ last.val = last.f.c

\* unwrapOrElse(fn) ran on an Err and returned what fn returned.
C12_Witness ==
    /\ last.op = "unwrapOrElse"
    /\ Receiver.cls = "ErrObject"
    /\ last.f = Cb("const", Num(2))
    /\ last.tag = "ret"
    /\ last.val = Num(2)
    /\ Len(last.calls) = 1

====
